---- MODULE Spec2Model ----
(***************************************************************************)
(* python-OBD protocol core: Protocol.__call__, Protocol.populate_ecu_map  *)
(* (obd/protocols/protocol.py) and CANProtocol.parse_frame / parse_message *)
(* (obd/protocols/protocol_can.py).                                        *)
(*                                                                         *)
(* A line is a sequence of one-character strings.  A Python IndexError is  *)
(* modelled as the status "IndexError" of the operation that raised it.    *)
(***************************************************************************)
EXTENDS Integers, Sequences, FiniteSets, TLC

VARIABLES id_bits, pc, ecu_map, lines, outcome, fault, messages

vars == <<id_bits, pc, ecu_map, lines, outcome, fault, messages>>

----------------------------------------------------------------------------
(* Constants of the source *)

None == -1

UNKNOWN == 1
ENGINE == 2
TRANSMISSION == 4

TX_ID_ENGINE == 0

FRAME_TYPE_SF == 0
FRAME_TYPE_FF == 16
FRAME_TYPE_CF == 32

----------------------------------------------------------------------------
(* Python list slicing and small arithmetic *)

Min(a, b) == IF a < b THEN a ELSE b

Max(a, b) == IF a > b THEN a ELSE b

\* s[k:]
From(s, k) == SubSeq(s, k + 1, Len(s))

\* s[:k]
UpTo(s, k) == SubSeq(s, 1, Min(Max(k, 0), Len(s)))

RECURSIVE BitAnd(_, _)
\* a & b on non-negative integers
BitAnd(a, b) ==
    IF a = 0 \/ b = 0 THEN 0
    ELSE (IF a % 2 = 1 /\ b % 2 = 1 THEN 1 ELSE 0) + 2 * BitAnd(a \div 2, b \div 2)

\* a & ~0x0F on a non-negative integer
ClearLow4(a) == a - (a % 16)

----------------------------------------------------------------------------
(* obd.utils: isHex, ascii_to_bytes, numBitsSet, contiguous *)

UpperHex == <<"0","1","2","3","4","5","6","7","8","9","A","B","C","D","E","F">>

LowerHex == <<"0","1","2","3","4","5","6","7","8","9","a","b","c","d","e","f">>

HexDigits == {UpperHex[i] : i \in 1..16} \cup {LowerHex[i] : i \in 1..16}

HexValue(c) ==
    IF \E i \in 1..16 : UpperHex[i] = c
    THEN (CHOOSE i \in 1..16 : UpperHex[i] = c) - 1
    ELSE (CHOOSE i \in 1..16 : LowerHex[i] = c) - 1

isHex(s) == \A i \in 1..Len(s) : s[i] \in HexDigits

\* one byte per pair of characters; a trailing single character is a byte too
ascii_to_bytes(a) ==
    [k \in 1..((Len(a) + 1) \div 2) |->
        IF 2 * k <= Len(a)
        THEN 16 * HexValue(a[2 * k - 1]) + HexValue(a[2 * k])
        ELSE HexValue(a[2 * k - 1])]

RECURSIVE numBitsSet(_)
numBitsSet(n) == IF n = 0 THEN 0 ELSE (n % 2) + numBitsSet(n \div 2)

contiguous(l, start, end) ==
    /\ Len(l) > 0
    /\ l[1] = start
    /\ l[Len(l)] = end
    /\ \A i \in 1..(Len(l) - 1) : l[i] + 1 = l[i + 1]

RECURSIVE RemoveSpaces(_)
\* line.replace(' ', '')
RemoveSpaces(s) ==
    IF s = <<>> THEN <<>>
    ELSE IF s[1] = " " THEN RemoveSpaces(Tail(s))
    ELSE <<s[1]>> \o RemoveSpaces(Tail(s))

----------------------------------------------------------------------------
(* Frame and Message *)

Frame(raw) ==
    [raw |-> raw, data |-> <<>>, priority |-> None, addr_mode |-> None,
     rx_id |-> None, tx_id |-> None, type |-> None, seq_index |-> 0,
     data_len |-> None]

Message(frames) == [frames |-> frames, ecu |-> UNKNOWN, data |-> <<>>]

\* Message.tx_id
MessageTxId(m) == IF Len(m.frames) = 0 THEN None ELSE m.frames[1].tx_id

\* Message.parsed()
parsed(m) == m.data # <<>>

----------------------------------------------------------------------------
(* CANProtocol.parse_frame *)

\* variant of Header11 that keeps the whole low nibble as the tx_id of a response
Header11_low_nibble(frame, raw_bytes) ==
    LET addr_mode == BitAnd(raw_bytes[4], 240) IN
    IF addr_mode = 208
    THEN [frame EXCEPT !.priority = BitAnd(raw_bytes[3], 15),
                       !.addr_mode = addr_mode,
                       !.rx_id = BitAnd(raw_bytes[4], 15),
                       !.tx_id = 241]
    ELSE IF BitAnd(raw_bytes[4], 8) # 0
    THEN [frame EXCEPT !.priority = BitAnd(raw_bytes[3], 15),
                       !.addr_mode = addr_mode,
                       !.rx_id = 241,
                       !.tx_id = BitAnd(raw_bytes[4], 15)]
    ELSE [frame EXCEPT !.priority = BitAnd(raw_bytes[3], 15),
                       !.addr_mode = addr_mode,
                       !.tx_id = 241,
                       !.rx_id = BitAnd(raw_bytes[4], 7)]

\* the header fields of an 11-bit line (raw_bytes has at least 4 bytes)
Header11(frame, raw_bytes) ==
    LET addr_mode == BitAnd(raw_bytes[4], 240) IN
    IF addr_mode = 208
    THEN [frame EXCEPT !.priority = BitAnd(raw_bytes[3], 15),
                       !.addr_mode = addr_mode,
                       !.rx_id = BitAnd(raw_bytes[4], 15),
                       !.tx_id = 241]
    ELSE IF BitAnd(raw_bytes[4], 8) # 0
    THEN [frame EXCEPT !.priority = BitAnd(raw_bytes[3], 15),
                       !.addr_mode = addr_mode,
                       !.rx_id = 241,
                       !.tx_id = BitAnd(raw_bytes[4], 7)]
    ELSE [frame EXCEPT !.priority = BitAnd(raw_bytes[3], 15),
                       !.addr_mode = addr_mode,
                       !.tx_id = 241,
                       !.rx_id = BitAnd(raw_bytes[4], 7)]

\* the header fields of a 29-bit line (raw_bytes has at least 4 bytes)
Header29(frame, raw_bytes) ==
    [frame EXCEPT !.priority = raw_bytes[1],
                  !.addr_mode = raw_bytes[2],
                  !.rx_id = raw_bytes[3],
                  !.tx_id = raw_bytes[4]]

\* the PCI byte: frame type, then the length code or the sequence index
ReadPCI(f) ==
    LET type == BitAnd(f.data[1], 240)
        typed == [f EXCEPT !.type = type]
    IN  IF type \notin {FRAME_TYPE_SF, FRAME_TYPE_FF, FRAME_TYPE_CF}
        THEN [status |-> "drop", frame |-> typed]
        ELSE IF type = FRAME_TYPE_SF
        THEN [status |-> "ok",
              frame |-> [typed EXCEPT !.data_len = BitAnd(f.data[1], 15)]]
        ELSE IF type = FRAME_TYPE_FF
        THEN IF Len(f.data) < 2
             THEN [status |-> "IndexError", frame |-> typed]
             ELSE [status |-> "ok",
                   frame |-> [typed EXCEPT
                       !.data_len = BitAnd(f.data[1], 15) * 256 + f.data[2]]]
        ELSE [status |-> "ok",
              frame |-> [typed EXCEPT !.seq_index = BitAnd(f.data[1], 15)]]

\* status "ok": accepted (True); "drop": returned False; "IndexError": raised
parse_frame(frame, idb) ==
    LET raw == IF idb = 11 THEN <<"0","0","0","0","0">> \o frame.raw ELSE frame.raw
        raw_bytes == ascii_to_bytes(raw)
    IN  IF Len(raw_bytes) < 4
        THEN [status |-> "IndexError", frame |-> frame]
        ELSE LET hdr == IF idb = 11 THEN Header11(frame, raw_bytes)
                        ELSE Header29(frame, raw_bytes)
                 f == [hdr EXCEPT !.data = From(raw_bytes, 4)]
             IN  IF Len(f.data) < 1
                 THEN [status |-> "IndexError", frame |-> f]
                 ELSE ReadPCI(f)

----------------------------------------------------------------------------
(* CANProtocol.parse_message *)

\* variant of single_frame_data that ignores the marked length (frame.data[1:])
single_frame_data_unmarked(frame) == From(frame.data, 1)

\* lone frame: the bytes after the PCI byte, up to the marked length
single_frame_data(frame) == SubSeq(frame.data, 2, Min(1 + frame.data_len, Len(frame.data)))

\* variant of rollover_seq without the wrap (seq += 0x10 left out)
rollover_seq_nowrap(prev, curr) == ClearLow4(prev) + curr

\* the full sequence number of curr, from the previous frame's full number
rollover_seq(prev, curr) ==
    LET seq == ClearLow4(prev) + curr
    IN  IF seq < prev - 7 THEN seq + 16 ELSE seq

RECURSIVE reconstruct(_)
\* the loop over zip(cf, cf[1:]): each curr is rewritten before it serves as prev
reconstruct(idx) ==
    IF Len(idx) <= 1 THEN idx
    ELSE LET init == reconstruct(SubSeq(idx, 1, Len(idx) - 1))
         IN  Append(init, rollover_seq(init[Len(init)], idx[Len(idx)]))

\* the positions in frames of the frames of the given type, in order
PositionsOf(frames, type) ==
    LET F[i \in 0..Len(frames)] ==
            IF i = 0 THEN <<>>
            ELSE IF frames[i].type = type THEN Append(F[i - 1], i) ELSE F[i - 1]
    IN  F[Len(frames)]

\* the frames after the loop has rewritten the seq_index of the CFs
WithSeq(frames, cfpos, seqs) ==
    [i \in 1..Len(frames) |->
        IF \E k \in 1..Len(cfpos) : cfpos[k] = i
        THEN [frames[i] EXCEPT !.seq_index = seqs[CHOOSE k \in 1..Len(cfpos) : cfpos[k] = i]]
        ELSE frames[i]]

RECURSIVE InsertBySeq(_, _)
InsertBySeq(sorted, f) ==
    IF sorted = <<>> THEN <<f>>
    ELSE IF f.seq_index < sorted[Len(sorted)].seq_index
    THEN Append(InsertBySeq(SubSeq(sorted, 1, Len(sorted) - 1), f), sorted[Len(sorted)])
    ELSE Append(sorted, f)

\* variant of SortBySeq that leaves the CFs in their order of arrival
SortBySeq_arrival(cf) == cf

\* sorted(cf, key=lambda f: f.seq_index), a stable sort
SortBySeq(cf) ==
    LET S[i \in 0..Len(cf)] == IF i = 0 THEN <<>> ELSE InsertBySeq(S[i - 1], cf[i])
    IN  S[Len(cf)]

RECURSIVE ConcatCF(_)
\* message.data += f.data[1:] for each CF
ConcatCF(cf) == IF cf = <<>> THEN <<>> ELSE From(cf[1].data, 1) \o ConcatCF(Tail(cf))

\* variant of assemble that does not chop to the declared size
assemble_unchopped(ff, cf) == From(ff.data, 2) \o ConcatCF(cf)

\* first frame without its two PCI bytes, then the CFs, chopped to the declared size
assemble(ff, cf) == UpTo(From(ff.data, 2) \o ConcatCF(cf), ff.data_len)

\* chop off the Mode/PID bytes; status "IndexError" where the code indexes past the end
strip_mode(frames, data) ==
    IF Len(data) < 1 THEN [status |-> "IndexError", frames |-> frames, data |-> data]
    ELSE IF data[1] = 67
    THEN IF Len(data) < 2
         THEN [status |-> "IndexError", frames |-> frames, data |-> data]
         ELSE [status |-> "ok", frames |-> frames,
               data |-> UpTo(From(data, 2), data[2] * 2)]
    ELSE [status |-> "ok", frames |-> frames, data |-> From(data, 2)]

\* variant of lone_frame without the check of the frame type
lone_frame_untyped(frames) == strip_mode(frames, single_frame_data(frames[1]))

\* a group of one frame: it must be a single frame
lone_frame(frames) ==
    IF frames[1].type # FRAME_TYPE_SF
    THEN [status |-> "drop", frames |-> frames, data |-> <<>>]
    ELSE strip_mode(frames, single_frame_data(frames[1]))

\* variant of multi_frame that asks for one FF only: no check that a CF came,
\* no check that the CF indices are contiguous
multi_frame_ff_only(frames) ==
    LET ffpos == PositionsOf(frames, FRAME_TYPE_FF)
        cfpos == PositionsOf(frames, FRAME_TYPE_CF)
    IN  IF Len(ffpos) # 1
        THEN [status |-> "drop", frames |-> frames, data |-> <<>>]
        ELSE LET seqs == reconstruct([k \in 1..Len(cfpos) |-> frames[cfpos[k]].seq_index])
                 frames2 == WithSeq(frames, cfpos, seqs)
                 cf == SortBySeq([k \in 1..Len(cfpos) |-> frames2[cfpos[k]]])
             IN  strip_mode(frames2, assemble(frames2[ffpos[1]], cf))

\* a group of several frames: one FF, at least one CF, contiguous after rollover
multi_frame(frames) ==
    LET ffpos == PositionsOf(frames, FRAME_TYPE_FF)
        cfpos == PositionsOf(frames, FRAME_TYPE_CF)
    IN  IF Len(ffpos) # 1 \/ Len(cfpos) = 0
        THEN [status |-> "drop", frames |-> frames, data |-> <<>>]
        ELSE LET seqs == reconstruct([k \in 1..Len(cfpos) |-> frames[cfpos[k]].seq_index])
                 frames2 == WithSeq(frames, cfpos, seqs)
                 cf == SortBySeq([k \in 1..Len(cfpos) |-> frames2[cfpos[k]]])
                 indices == [k \in 1..Len(cf) |-> cf[k].seq_index]
             IN  IF ~contiguous(indices, 1, Len(cf))
                 THEN [status |-> "drop", frames |-> frames2, data |-> <<>>]
                 ELSE strip_mode(frames2, assemble(frames2[ffpos[1]], cf))

\* status "ok": the message is kept; "drop": returned False; "IndexError": raised
parse_message(frames) ==
    IF Len(frames) = 1 THEN lone_frame(frames) ELSE multi_frame(frames)

----------------------------------------------------------------------------
(* Protocol.lookup_ecu and Protocol.populate_ecu_map *)

EmptyMap == [k \in {} |-> UNKNOWN]

\* self.ecu_map[k] = v
MapSet(map, k, v) == [x \in (DOMAIN map) \cup {k} |-> IF x = k THEN v ELSE map[x]]

lookup_ecu(map, tx_id) == IF tx_id \in DOMAIN map THEN map[tx_id] ELSE UNKNOWN

RECURSIVE SumBits(_)
\* sum([numBitsSet(b) for b in message.data])
SumBits(data) == IF data = <<>> THEN 0 ELSE numBitsSet(data[1]) + SumBits(Tail(data))

\* the last resort: the tx_id of the message with the most bits set
most_bits_tx_id(msgs) ==
    LET B[i \in 0..Len(msgs)] ==
            IF i = 0 THEN [best |-> 0, tx_id |-> None]
            ELSE LET bits == SumBits(msgs[i].data)
                     before == B[i - 1]
                 IN  IF bits > before.best
                     THEN [best |-> bits, tx_id |-> MessageTxId(msgs[i])]
                     ELSE before
    IN  B[Len(msgs)].tx_id

\* any remaining tx_ids are unknown
mark_remaining(map, msgs) ==
    LET R[i \in 0..Len(msgs)] ==
            IF i = 0 THEN map
            ELSE LET before == R[i - 1]
                 IN  IF MessageTxId(msgs[i]) \in DOMAIN before THEN before
                     ELSE MapSet(before, MessageTxId(msgs[i]), UNKNOWN)
    IN  R[Len(msgs)]

\* variant of populate_ecu_map without the rule for a sole responder
populate_ecu_map_no_sole(map, all_messages) ==
    LET msgs == SelectSeq(all_messages, parsed)
    IN  IF Len(msgs) = 0 THEN map
        ELSE LET found_engine == \E i \in 1..Len(msgs) : MessageTxId(msgs[i]) = TX_ID_ENGINE
                 engine == IF found_engine THEN MapSet(map, TX_ID_ENGINE, ENGINE)
                           ELSE MapSet(map, most_bits_tx_id(msgs), ENGINE)
             IN  mark_remaining(engine, msgs)

populate_ecu_map(map, all_messages) ==
    LET msgs == SelectSeq(all_messages, parsed)
    IN  IF Len(msgs) = 0 THEN map
        ELSE IF Len(msgs) = 1 THEN MapSet(map, MessageTxId(msgs[1]), ENGINE)
        ELSE LET found_engine == \E i \in 1..Len(msgs) : MessageTxId(msgs[i]) = TX_ID_ENGINE
                 engine == IF found_engine THEN MapSet(map, TX_ID_ENGINE, ENGINE)
                           ELSE MapSet(map, most_bits_tx_id(msgs), ENGINE)
             IN  mark_remaining(engine, msgs)

----------------------------------------------------------------------------
(* Protocol.__call__ *)

\* the hex lines, without their spaces
obd_lines_of(ls) ==
    LET stripped == [i \in 1..Len(ls) |-> RemoveSpaces(ls[i])]
    IN  SelectSeq(stripped, isHex)

\* the other lines, untouched
non_obd_message(line) == Message(<<Frame(line)>>)

non_obd_lines_of(ls) == SelectSeq(ls, LAMBDA l : ~isHex(RemoveSpaces(l)))

\* the tx_ids of the frames, each once, in the order they are first seen
KeysOf(frames) ==
    LET K[i \in 0..Len(frames)] ==
            IF i = 0 THEN <<>>
            ELSE LET before == K[i - 1]
                 IN  IF \E j \in 1..Len(before) : before[j] = frames[i].tx_id
                     THEN before
                     ELSE Append(before, frames[i].tx_id)
    IN  K[Len(frames)]

\* the orders in which a dict of these keys may be iterated
IterationOrders(keys) ==
    LET n == Len(keys)
    IN  {[i \in 1..n |-> keys[p[i]]] :
            p \in {q \in [1..n -> 1..n] : \A i, j \in 1..n : q[i] = q[j] => i = j}}

\* parse each hex line; the frames that parse_frame accepted, or its IndexError
parse_frames(ls, idb) ==
    LET obd_lines == obd_lines_of(ls)
        pf == [i \in 1..Len(obd_lines) |-> parse_frame(Frame(obd_lines[i]), idb)]
    IN  IF \E i \in 1..Len(pf) : pf[i].status = "IndexError"
        THEN [status |-> "IndexError", frames |-> <<>>]
        ELSE LET accepted == SelectSeq(pf, LAMBDA r : r.status = "ok")
             IN  [status |-> "ok", frames |-> [i \in 1..Len(accepted) |-> accepted[i].frame]]

\* group the frames by tx_id, assemble and tag one message per group in the
\* given order of the groups, then append a message per adapter line
parse_messages(ls, frames, map, order) ==
    LET pm == [k \in 1..Len(order) |->
                  parse_message(SelectSeq(frames, LAMBDA f : f.tx_id = order[k]))]
    IN  IF \E k \in 1..Len(pm) : pm[k].status = "IndexError"
        THEN [outcome |-> "raised", fault |-> "parse_message", messages |-> <<>>]
        ELSE
        LET kept == SelectSeq([k \in 1..Len(pm) |-> [r |-> pm[k], tx |-> order[k]]],
                              LAMBDA x : x.r.status = "ok")
            obd == [k \in 1..Len(kept) |->
                      [frames |-> kept[k].r.frames,
                       ecu |-> lookup_ecu(map, kept[k].tx),
                       data |-> kept[k].r.data]]
            non_obd == non_obd_lines_of(ls)
        IN  [outcome |-> "returned", fault |-> "none",
             messages |-> obd \o [i \in 1..Len(non_obd) |-> non_obd_message(non_obd[i])]]

\* the results one call can have, one per iteration order of frames_by_ECU
call(ls, idb, map) ==
    LET fr == parse_frames(ls, idb)
    IN  IF fr.status = "IndexError"
        THEN {[outcome |-> "raised", fault |-> "parse_frame", messages |-> <<>>]}
        ELSE {parse_messages(ls, fr.frames, map, order) :
                 order \in IterationOrders(KeysOf(fr.frames))}

----------------------------------------------------------------------------
(* The driver: construction from the 0100 response, then calls *)

\* CANProtocol.__init__ and Protocol.__init__; no driver exists when the call raises
Construct(idb, lines_0100) ==
    /\ pc = "new"
    /\ id_bits' = idb
    /\ lines' = lines_0100
    /\ \E r \in call(lines_0100, idb, EmptyMap) :
          /\ outcome' = r.outcome
          /\ fault' = r.fault
          /\ messages' = r.messages
          /\ IF r.outcome = "raised"
             THEN pc' = "failed" /\ ecu_map' = EmptyMap
             ELSE pc' = "constructed" /\ ecu_map' = populate_ecu_map(EmptyMap, r.messages)

\* variant of Call that runs populate_ecu_map on the messages of every call
Call_repopulating(ls) ==
    /\ pc \in {"constructed", "called"}
    /\ lines' = ls
    /\ \E r \in call(ls, id_bits, ecu_map) :
          /\ outcome' = r.outcome
          /\ fault' = r.fault
          /\ messages' = r.messages
          /\ ecu_map' = populate_ecu_map(ecu_map, r.messages)
    /\ pc' = "called"
    /\ UNCHANGED id_bits

\* Protocol.__call__ on a constructed driver
Call(ls) ==
    /\ pc \in {"constructed", "called"}
    /\ lines' = ls
    /\ \E r \in call(ls, id_bits, ecu_map) :
          /\ outcome' = r.outcome
          /\ fault' = r.fault
          /\ messages' = r.messages
    /\ pc' = "called"
    /\ UNCHANGED <<id_bits, ecu_map>>

\* before construction
Init ==
    /\ id_bits = None
    /\ pc = "new"
    /\ ecu_map = EmptyMap
    /\ lines = <<>>
    /\ outcome = "none"
    /\ fault = "none"
    /\ messages = <<>>

----------------------------------------------------------------------------
(* Input lines, as an ELM327 adapter prints them *)

HexByte(b) == <<UpperHex[(b \div 16) + 1], UpperHex[(b % 16) + 1]>>

RECURSIVE HexBytes(_, _)
\* the bytes in hex, with a space before each when spaced
HexBytes(bytes, spaced) ==
    IF bytes = <<>> THEN <<>>
    ELSE (IF spaced THEN <<" ">> ELSE <<>>) \o HexByte(bytes[1]) \o HexBytes(Tail(bytes), spaced)

\* the header of a response from ECU e: 7E8+e (11-bit), 18 DA F1 10+e (29-bit)
HeaderOf(idb, e, spaced) ==
    IF idb = 11
    THEN IF spaced THEN <<"7", " ", "E", UpperHex[8 + e + 1]>>
         ELSE <<"7", "E", UpperHex[8 + e + 1]>>
    ELSE IF spaced THEN <<"1", "8">> \o HexBytes(<<218, 241, 16 + e>>, TRUE)
         ELSE HexBytes(<<24, 218, 241, 16 + e>>, FALSE)

\* a line from ECU e carrying the payload bytes
LineOf(idb, e, payload, spaced) == HeaderOf(idb, e, spaced) \o HexBytes(payload, spaced)

NO_DATA == <<"N", "O", " ", "D", "A", "T", "A">>

STOPPED == <<"S", "T", "O", "P", "P", "E", "D">>

\* the sequences of at most n lines drawn from the set
Batches(set, n) == UNION {[1..k -> set] : k \in 0..n}

----------------------------------------------------------------------------
(* Spec: one batch of lines through a driver built from a one-ECU 0100 response *)

MaxLines == 3

\* 7 E8 06 41 00 BE 3F A8 13
EngineLine0100(idb) == LineOf(idb, 0, <<6, 65, 0, 190, 63, 168, 19>>, TRUE)

\* a single frame
RpmSF(idb) == LineOf(idb, 2, <<4, 65, 12, 26, 248>>, TRUE)

\* a single frame that declares 15 bytes and carries 17 after its PCI byte
LongSF(idb) ==
    LineOf(idb, 1, <<15, 65, 0, 1, 2, 3, 4, 5, 6, 7, 8, 9, 10, 11, 12, 13, 14, 15>>, FALSE)

\* first frames: 20 bytes declared; 8 declared; DTC responses with count 3 and 5
VinFF(idb) == LineOf(idb, 2, <<16, 20, 73, 2, 1, 49, 50, 51>>, FALSE)

ShortFF(idb) == LineOf(idb, 2, <<16, 8, 65, 0, 1, 2, 3, 4>>, FALSE)

Dtc3FF(idb) == LineOf(idb, 2, <<16, 10, 67, 3, 17, 34, 51, 68>>, FALSE)

Dtc5FF(idb) == LineOf(idb, 2, <<16, 10, 67, 5, 17, 34, 51, 68>>, FALSE)

\* consecutive frames 1 and 2
FirstCF(idb) == LineOf(idb, 2, <<33, 52, 53, 54, 55, 56, 57, 65>>, FALSE)

SecondCF(idb) == LineOf(idb, 2, <<34, 66, 67, 68, 69, 70, 71, 72>>, FALSE)

\* malformed lines: a header with no payload, a first frame with one payload
\* byte, a single frame that declares no data, a lone DTC mode byte
HeaderOnly(idb) == LineOf(idb, 0, <<>>, FALSE)

OneByteFF(idb) == LineOf(idb, 1, <<16>>, FALSE)

EmptySF(idb) == LineOf(idb, 1, <<0>>, FALSE)

DtcOnlySF(idb) == LineOf(idb, 3, <<1, 67>>, FALSE)

Lines(idb) ==
    {NO_DATA, STOPPED, RpmSF(idb), LongSF(idb), VinFF(idb), ShortFF(idb),
     Dtc3FF(idb), Dtc5FF(idb), FirstCF(idb), SecondCF(idb), HeaderOnly(idb),
     OneByteFF(idb), EmptySF(idb), DtcOnlySF(idb)}

ConstructDriver == \E idb \in {11, 29} : Construct(idb, <<EngineLine0100(idb)>>)

FirstCall == pc = "constructed" /\ \E ls \in Batches(Lines(id_bits), MaxLines) : Call(ls)

Next == ConstructDriver \/ FirstCall

Spec == Init /\ [][Next]_vars

----------------------------------------------------------------------------
(* SpecLifetime: a driver built from any 0100 response, then any number of calls *)

Max0100Lines == 2

MaxCallLines == 2

\* 0100 responses of two ECUs: 7 E8 06 41 00 BE 3F A8 13 and 7E9 06 41 00 80 00 00 00
Lines0100(idb) ==
    {EngineLine0100(idb), LineOf(idb, 1, <<6, 65, 0, 128, 0, 0, 0>>, FALSE)}

\* single frames of three ECUs and an adapter line
LifetimeLines(idb) ==
    {NO_DATA,
     LineOf(idb, 0, <<4, 65, 12, 26, 248>>, TRUE),
     LineOf(idb, 1, <<3, 65, 13, 50>>, FALSE),
     RpmSF(idb)}

ConstructAny ==
    \E idb \in {11, 29} : \E ls \in Batches(Lines0100(idb), Max0100Lines) : Construct(idb, ls)

CallAgain == \E ls \in Batches(LifetimeLines(id_bits), MaxCallLines) : Call(ls)

NextLifetime == ConstructAny \/ CallAgain

SpecLifetime == Init /\ [][NextLifetime]_vars

----------------------------------------------------------------------------
(* SpecRollover: a first frame followed by n consecutive frames, in order, *)
(* whose 4-bit indices are 1, 2, ..., 15, 0, 1, ...                        *)

MaxCF == 34

\* the payload bytes that consecutive frame k carries after its PCI byte
RolloverPayload(k, wide) == IF wide THEN <<k, 100 + k, 200>> ELSE <<k>>

\* the k-th consecutive frame: PCI 0x20 + (k mod 16)
RolloverCF(idb, k, wide) == LineOf(idb, 2, <<32 + (k % 16)>> \o RolloverPayload(k, wide), FALSE)

\* the first frame, declaring all the bytes sent or the largest 12-bit length
RolloverFF(idb, n, wide, full) ==
    LET total == 6 + n * Len(RolloverPayload(1, wide))
    IN  LineOf(idb, 2,
               (IF full THEN <<16 + 15, 255>> ELSE <<16, total>>) \o <<73, 2, 1, 49, 50, 51>>,
               FALSE)

RolloverBatch(idb, n, wide, full) ==
    <<RolloverFF(idb, n, wide, full)>> \o [k \in 1..n |-> RolloverCF(idb, k, wide)]

RolloverCall ==
    /\ pc = "constructed"
    /\ \E n \in 1..MaxCF : \E wide, full \in BOOLEAN :
          Call(RolloverBatch(id_bits, n, wide, full))

NextRollover == ConstructDriver \/ RolloverCall

SpecRollover == Init /\ [][NextRollover]_vars

----------------------------------------------------------------------------
(* SpecProbe: construction from the 0100 responses of up to three ECUs *)

MaxProbeLines == 3

\* the PID bitmaps an ECU may answer 0100 with: 0, 1 and 18 bits set
ProbeBitmaps == {<<0, 0, 0, 0>>, <<128, 0, 0, 0>>, <<190, 63, 168, 19>>}

\* ECU 0 answers with the 18-bit bitmap, ECUs 1 and 2 with any of the three
ProbeLines(idb) ==
    {NO_DATA, LineOf(idb, 0, <<6, 65, 0, 190, 63, 168, 19>>, FALSE)} \cup
    {LineOf(idb, e, <<6, 65, 0>> \o bitmap, FALSE) : e \in 1..2, bitmap \in ProbeBitmaps}

ProbeConstruct ==
    \E idb \in {11, 29} : \E ls \in Batches(ProbeLines(idb), MaxProbeLines) : Construct(idb, ls)

NextProbe == ProbeConstruct

SpecProbe == Init /\ [][NextProbe]_vars

----------------------------------------------------------------------------
(* SpecDrop: one batch mixing the frames of two ECUs and an adapter line, so *)
(* that one ECU's group is malformed while the other's is well formed        *)

MaxDropLines == 4

\* ECU 1: a single frame, a first frame, consecutive frames 1 and 2;
\* ECU 2: a single frame, a first frame; an adapter line
DropLines(idb) ==
    {NO_DATA,
     LineOf(idb, 1, <<3, 65, 13, 50>>, FALSE),
     LineOf(idb, 1, <<16, 8, 65, 0, 1, 2, 3, 4>>, FALSE),
     LineOf(idb, 1, <<33, 5, 6, 7>>, FALSE),
     LineOf(idb, 1, <<34, 8, 9, 10>>, FALSE),
     RpmSF(idb), ShortFF(idb)}

DropCall == pc = "constructed" /\ \E ls \in Batches(DropLines(id_bits), MaxDropLines) : Call(ls)

NextDrop == ConstructDriver \/ DropCall

SpecDrop == Init /\ [][NextDrop]_vars

----------------------------------------------------------------------------
(* SpecHeader: an 11-bit driver handed single frames whose last header byte *)
(* runs over consecutive values, starting anywhere in 0x00..0xFF            *)

MaxHeaderLines == 4

\* 7 bb 04 41 0C 1A F8, bb the last header byte
HeaderLine(b) == <<"7">> \o HexBytes(<<b, 4, 65, 12, 26, 248>>, TRUE)

\* n lines with the header bytes b0, b0 + 1, ... (modulo 0x100)
HeaderBatch(b0, n) == [k \in 1..n |-> HeaderLine((b0 + k - 1) % 256)]

HeaderConstruct == Construct(11, <<EngineLine0100(11)>>)

HeaderCall ==
    /\ pc = "constructed"
    /\ \E b0 \in 0..255 : \E n \in 1..MaxHeaderLines : Call(HeaderBatch(b0, n))

NextHeader == HeaderConstruct \/ HeaderCall

SpecHeader == Init /\ [][NextHeader]_vars

----------------------------------------------------------------------------
(* SpecOrder: a first frame followed by consecutive frames 1..n, n < 16, that *)
(* arrive in another order than they were sent                                *)

MaxOrderCF == 10

MaxPermCF == 4

\* every order of 1..n
OrdersOf(n) == {q \in [1..n -> 1..n] : \A i, j \in 1..n : q[i] = q[j] => i = j}

\* 1..n with the element at position i moved to position j
Moved(n, i, j) ==
    LET rest == SelectSeq([k \in 1..n |-> k], LAMBDA k : k # i)
    IN  SubSeq(rest, 1, j - 1) \o <<i>> \o SubSeq(rest, j, n - 1)

\* k + 1, ..., n, 1, ..., k
Rotated(n, k) == [i \in 1..n |-> ((i + k - 1) % n) + 1]

\* n, n - 1, ..., 1
Reversed(n) == [i \in 1..n |-> n + 1 - i]

\* the arrival orders tried: all of them for a few frames; beyond that one
\* frame early or late, a rotation, or the reverse order
ArrivalOrders(n) ==
    IF n <= MaxPermCF THEN OrdersOf(n)
    ELSE {Moved(n, i, j) : i, j \in 1..n} \cup {Rotated(n, k) : k \in 0..(n - 1)}
             \cup {Reversed(n)}

\* the first frame, then the consecutive frames in the given order
OrderBatch(idb, n, order) ==
    <<RolloverFF(idb, n, TRUE, FALSE)>> \o [k \in 1..n |-> RolloverCF(idb, order[k], TRUE)]

OrderCall ==
    /\ pc = "constructed"
    /\ \E n \in 1..MaxOrderCF : \E order \in ArrivalOrders(n) :
          Call(OrderBatch(id_bits, n, order))

NextOrder == ConstructDriver \/ OrderCall

SpecOrder == Init /\ [][NextOrder]_vars

----------------------------------------------------------------------------
(* Properties *)

\* a line the driver keeps as adapter text
NonHex(line) == ~isHex(RemoveSpaces(line))

\* the driver has been handed a batch after its construction
Called == pc = "called"

\* C1: parse_frame never raises: every hex line of a batch handed to call is
\* accepted or dropped (returns false), and the batch is still decoded.
C1_ParseFrameNeverRaises ==
    Called =>
        /\ \A i \in 1..Len(lines) :
              ~NonHex(lines[i]) =>
                  parse_frame(Frame(RemoveSpaces(lines[i])), id_bits).status \in {"ok", "drop"}
        /\ fault # "parse_frame"

\* C2: call never fails at the assembly stage: when parse_frame has accepted
\* or dropped every line, every group yields a message or is dropped, and call
\* returns a list of messages.
C2_AssemblyNeverRaises ==
    (Called /\ fault # "parse_frame") => (outcome = "returned" /\ fault = "none")

\* C3: for every input list, each non-hex line yields exactly one returned
\* message with a single frame whose raw is the untouched line, ecu UNKNOWN and
\* empty data; these messages come after all parsed messages, in input order.
C3_AdapterLinesSurfaced ==
    LET non == SelectSeq(lines, NonHex)
        n == Len(messages) - Len(non)
    IN  (Called /\ Len(non) > 0) =>
            /\ n >= 0
            /\ \A i \in 1..Len(non) :
                  messages[n + i] = [frames |-> <<Frame(non[i])>>, ecu |-> UNKNOWN, data |-> <<>>]
            /\ \A j \in 1..n : ~NonHex(messages[j].frames[1].raw)

\* the role the map gives a tx_id
RoleIn(map, tx_id) == IF tx_id \in DOMAIN map THEN map[tx_id] ELSE UNKNOWN

\* a step of a constructed driver keeps the map and tags by it
FrozenStep ==
    pc \in {"constructed", "called"} =>
        /\ ecu_map' = ecu_map
        /\ \A i \in 1..Len(messages') :
              parsed(messages'[i]) =>
                  messages'[i].ecu = RoleIn(ecu_map, messages'[i].frames[1].tx_id)

\* C4: once the driver is constructed, no call changes the ECU map, and every
\* parsed message a call returns is tagged with the map's role for its tx_id,
\* or UNKNOWN when the tx_id is not in the map.
C4_EcuMapFrozen == [][FrozenStep]_vars

\* C4's case: a call returned an ENGINE message and a message of a tx_id that
\* the map does not hold
C4_Witness ==
    /\ Called
    /\ outcome = "returned"
    /\ \E i, j \in 1..Len(messages) :
          /\ parsed(messages[i]) /\ messages[i].ecu = ENGINE
          /\ parsed(messages[j]) /\ messages[j].frames[1].tx_id \notin DOMAIN ecu_map
          /\ messages[j].ecu = UNKNOWN

\* the messages a call or the construction returned
Returned == IF outcome = "returned" THEN {messages[i] : i \in 1..Len(messages)} ELSE {}

\* a returned message built from hex lines
FromHex(m) == ~NonHex(m.frames[1].raw)

FramesOfType(m, type) == {i \in 1..Len(m.frames) : m.frames[i].type = type}

\* a returned message assembled from several frames
MultiFrame(m) == FromHex(m) /\ Len(m.frames) > 1

FirstFrame(m) == m.frames[CHOOSE i \in FramesOfType(m, FRAME_TYPE_FF) : TRUE]

ConsecutiveFrame(m, k) ==
    m.frames[CHOOSE i \in FramesOfType(m, FRAME_TYPE_CF) : m.frames[i].seq_index = k]

RECURSIVE ConsecutiveBytes(_, _)
\* the bytes after the PCI byte of consecutive frames 1..k, in index order
ConsecutiveBytes(m, k) ==
    IF k = 0 THEN <<>>
    ELSE ConsecutiveBytes(m, k - 1) \o SubSeq(ConsecutiveFrame(m, k).data, 2,
                                              Len(ConsecutiveFrame(m, k).data))

\* the bytes received for a multi-frame message, PCI bytes left out
Received(m) ==
    SubSeq(FirstFrame(m).data, 3, Len(FirstFrame(m).data))
        \o ConsecutiveBytes(m, Cardinality(FramesOfType(m, FRAME_TYPE_CF)))

LoneSingle(m) == FromHex(m) /\ Len(m.frames) = 1 /\ m.frames[1].type = FRAME_TYPE_SF

\* C6 as stated: the data of a message built from a lone single frame has at
\* most 7 bytes, however many payload bytes the line carries.
C6_SingleFrameAtMost7 == \A m \in Returned : LoneSingle(m) => Len(m.data) <= 7

\* C6 amended: the data of a message built from a lone single frame has at most
\* max(0, data_len - 2) bytes, hence at most 13 (15, the largest length a 4-bit
\* PCI declares, less the mode and PID bytes).
C6_SingleFrameAtMost13 ==
    \A m \in Returned :
        LoneSingle(m) =>
            /\ Len(m.data) <= Max(0, m.frames[1].data_len - 2)
            /\ Len(m.data) <= 13

\* C6's case: a single frame that declares 15 bytes and carries more
C6_Witness ==
    /\ Called
    /\ \E m \in Returned :
          /\ LoneSingle(m)
          /\ m.frames[1].data_len = 15
          /\ Len(m.frames[1].data) > 16
          /\ Len(m.data) = 13

\* one frame of type SF, or else one FF, at least one CF, and CF indices that
\* are 1..|CF| after the rollover reconstruction
WellFramed(m) ==
    IF Len(m.frames) = 1 THEN m.frames[1].type = FRAME_TYPE_SF
    ELSE /\ Cardinality(FramesOfType(m, FRAME_TYPE_FF)) = 1
         /\ Cardinality(FramesOfType(m, FRAME_TYPE_CF)) >= 1
         /\ {m.frames[i].seq_index : i \in FramesOfType(m, FRAME_TYPE_CF)}
                = 1..Cardinality(FramesOfType(m, FRAME_TYPE_CF))

\* C10 as stated: every message in the list call returns has one frame of
\* type SF, or else exactly one FF, at least one CF and contiguous CF indices.
C10_FrameStructure == \A m \in Returned : WellFramed(m)

\* C10 amended: every message in the list call returns that was built from hex
\* lines has one frame of type SF, or else exactly one FF, at least one CF and
\* contiguous CF indices; a message of an adapter line has one frame, of no type.
C10_FrameStructureOfParsed ==
    \A m \in Returned :
        IF FromHex(m) THEN WellFramed(m)
        ELSE Len(m.frames) = 1 /\ m.frames[1].type = None

\* C10's case: a call returned a multi-frame message and an adapter message
C10_Witness ==
    /\ Called
    /\ \E m \in Returned : MultiFrame(m) /\ Cardinality(FramesOfType(m, FRAME_TYPE_CF)) >= 1
    /\ \E m \in Returned : ~FromHex(m)

\* the batch is the first frame and the n in-order consecutive frames
IsRolloverBatch(n, wide, full) == lines = RolloverBatch(id_bits, n, wide, full)

RECURSIVE RolloverBytes(_, _)
\* the payloads of consecutive frames 1..n, in that order
RolloverBytes(n, wide) ==
    IF n = 0 THEN <<>> ELSE RolloverBytes(n - 1, wide) \o RolloverPayload(n, wide)

\* C7: for every n >= 1, a group whose n CFs arrive in order with 4-bit indices
\* k mod 16 (k = 1..n) is reconstructed to the indices 1..n, passes the
\* contiguity check and is assembled with the CF payloads in that order.
C7_SequenceRollover ==
    \A n \in 1..MaxCF : \A wide, full \in BOOLEAN :
        (Called /\ IsRolloverBatch(n, wide, full)) =>
            /\ outcome = "returned"
            /\ Len(messages) = 1
            /\ Len(messages[1].frames) = n + 1
            /\ \A k \in 1..n : messages[1].frames[k + 1].seq_index = k
            /\ messages[1].data = <<1, 49, 50, 51>> \o RolloverBytes(n, wide)

\* C7's case: the indices have wrapped (1, ..., 15, 0, 1, ...) and the message
\* was assembled
C7_Witness ==
    /\ Called
    /\ outcome = "returned"
    /\ Len(messages) = 1
    /\ Len(messages[1].frames) >= 18
    /\ messages[1].frames[18].seq_index = 17
    /\ messages[1].frames[18].data[1] = 32 + 1

\* the messages of the 0100 response that carry data, in the order returned
Responders == SelectSeq(messages, parsed)

\* the driver was constructed and no batch has been handed to it yet
Constructed == pc = "constructed"

\* the number of set bits of a byte, bit by bit
BitsOfByte(b) == Cardinality({i \in 0..7 : (b \div (2 ^ i)) % 2 = 1})

RECURSIVE BitsOf(_)
BitsOf(data) == IF data = <<>> THEN 0 ELSE BitsOfByte(data[1]) + BitsOf(Tail(data))

\* the first responder among those with the most bits set
FirstBest(rs) ==
    CHOOSE i \in 1..Len(rs) :
        /\ \A j \in 1..Len(rs) : BitsOf(rs[j].data) <= BitsOf(rs[i].data)
        /\ \A j \in 1..(i - 1) : BitsOf(rs[j].data) < BitsOf(rs[i].data)

\* C8: when the 0100 response yields two or more parsed messages, none from
\* TX_ID_ENGINE, the map holds exactly the responders' tx_ids: ENGINE for the
\* first-seen message among those with the most set bits, UNKNOWN for the
\* others, for every combination of payload bytes.
C8_EngineByPopCount ==
    LET rs == Responders
    IN  (/\ Constructed
         /\ Len(rs) >= 2
         /\ \A i \in 1..Len(rs) : rs[i].frames[1].tx_id # TX_ID_ENGINE) =>
            /\ DOMAIN ecu_map = {rs[i].frames[1].tx_id : i \in 1..Len(rs)}
            /\ \A i \in 1..Len(rs) :
                  ecu_map[rs[i].frames[1].tx_id] = IF i = FirstBest(rs) THEN ENGINE ELSE UNKNOWN

\* C9: when the 0100 response yields exactly one message with data, the map
\* has one entry, that message's tx_id mapped to ENGINE; when it yields none,
\* the map is empty.
C9_SoleResponder ==
    LET rs == Responders
    IN  Constructed =>
            /\ Len(rs) = 1 =>
                  /\ DOMAIN ecu_map = {rs[1].frames[1].tx_id}
                  /\ ecu_map[rs[1].frames[1].tx_id] = ENGINE
            /\ Len(rs) = 0 => DOMAIN ecu_map = {}

\* C9's case: the sole responder is not TX_ID_ENGINE, its bitmap has no bit
\* set, and an adapter line came with it
C9_Witness ==
    /\ Constructed
    /\ Len(Responders) = 1
    /\ Responders[1].frames[1].tx_id # TX_ID_ENGINE
    /\ BitsOf(Responders[1].data) = 0
    /\ Len(messages) > 1
    /\ ecu_map[Responders[1].frames[1].tx_id] = ENGINE

\* what parse_frame makes of each line of the batch; an adapter line is "text"
ParsedLines ==
    [i \in 1..Len(lines) |->
        IF NonHex(lines[i]) THEN [status |-> "text", frame |-> Frame(lines[i])]
        ELSE parse_frame(Frame(RemoveSpaces(lines[i])), id_bits)]

\* the positions of the lines that parse_frame accepted as frames from tx_id t
AcceptedFrom(pl, t) ==
    SelectSeq([i \in 1..Len(pl) |-> i],
              LAMBDA i : pl[i].status = "ok" /\ pl[i].frame.tx_id = t)

\* the frames of the batch that were accepted from tx_id t, as parse_frame left them
GroupOf(pl, t) == [k \in 1..Len(AcceptedFrom(pl, t)) |-> pl[AcceptedFrom(pl, t)[k]].frame]

\* the tx_ids that some accepted frame of the batch came from
Senders(pl) == {pl[i].frame.tx_id : i \in {j \in 1..Len(pl) : pl[j].status = "ok"}}

\* two or more frames with no FF, more than one FF, no CF, or CF indices that
\* are not each of 1..|CF| once (fewer than 16 CFs: the 4-bit indices as sent)
Malformed(g) ==
    LET ff == {i \in 1..Len(g) : g[i].type = FRAME_TYPE_FF}
        cf == {i \in 1..Len(g) : g[i].type = FRAME_TYPE_CF}
    IN  /\ Len(g) >= 2
        /\ Cardinality(cf) < 16
        /\ \/ Cardinality(ff) # 1
           \/ cf = {}
           \/ {g[i].seq_index : i \in cf} # 1..Cardinality(cf)

\* the batch without the lines of the group of tx_id t
Without(pl, t) ==
    LET keep == SelectSeq([i \in 1..Len(pl) |-> i],
                          LAMBDA i : ~(pl[i].status = "ok" /\ pl[i].frame.tx_id = t))
    IN  [k \in 1..Len(keep) |-> lines[keep[k]]]

\* C11: a group of two or more accepted frames from one tx_id that has no FF,
\* more than one FF, no CF, or CF indices that are not contiguous 1..|CF| yields
\* no message for that tx_id, and what the call returns for the other tx_ids
\* and for the adapter lines is what it returns for the batch without that
\* group's lines.
C11_DropsIsolated ==
    Called =>
        LET pl == ParsedLines
        IN  \A t \in Senders(pl) :
                Malformed(GroupOf(pl, t)) =>
                    /\ \A m \in Returned : FromHex(m) => m.frames[1].tx_id # t
                    /\ [outcome |-> outcome, fault |-> fault, messages |-> messages]
                           \in call(Without(pl, t), id_bits, ecu_map)

\* C11's case: one ECU's group was malformed, and the call returned the message
\* of another ECU and the message of an adapter line
C11_Witness ==
    /\ Called
    /\ outcome = "returned"
    /\ \E t \in Senders(ParsedLines) : Malformed(GroupOf(ParsedLines, t))
    /\ \E m \in Returned : FromHex(m) /\ parsed(m)
    /\ \E m \in Returned : ~FromHex(m)

\* the last header byte of an 11-bit line: its second and third hex digits
HeaderByte(line) ==
    LET l == RemoveSpaces(line) IN 16 * HexValue(l[2]) + HexValue(l[3])

\* the tx_id and rx_id that the header byte b stands for
DecodedIds(b) ==
    IF b \div 16 = 13 THEN [tx_id |-> 241, rx_id |-> b % 16]
    ELSE IF (b \div 8) % 2 = 1 THEN [tx_id |-> b % 8, rx_id |-> 241]
    ELSE [tx_id |-> 241, rx_id |-> b % 8]

\* the header byte belongs to a response 7E8..7EF
IsResponse(b) == b \in 232..239

\* C12: for every value b of the last header byte of an 11-bit line,
\* parse_frame sets tx_id = 0xF1 and rx_id = b & 0x0F when (b & 0xF0) = 0xD0,
\* else rx_id = 0xF1 and tx_id = b & 0x07 when (b & 0x08) # 0, else
\* tx_id = 0xF1 and rx_id = b & 0x07; every accepted frame has exactly one of
\* tx_id and rx_id equal to 0xF1; the responses 7E8..7EF get the distinct
\* tx_ids 0..7, so each yields a message of its own.
C12_HeaderDecode ==
    (Called /\ id_bits = 11) =>
        LET pl == ParsedLines
        IN  /\ \A i \in 1..Len(lines) :
                  LET b == HeaderByte(lines[i])
                      f == pl[i].frame
                  IN  /\ pl[i].status = "ok"
                      /\ f.tx_id = DecodedIds(b).tx_id
                      /\ f.rx_id = DecodedIds(b).rx_id
                      /\ (f.tx_id = 241) # (f.rx_id = 241)
                      /\ IsResponse(b) => f.tx_id = b - 232
            /\ \A m \in Returned : \A k \in 1..Len(m.frames) :
                  (m.frames[k].tx_id = 241) # (m.frames[k].rx_id = 241)
            /\ (\A i \in 1..Len(lines) : IsResponse(HeaderByte(lines[i]))) =>
                  /\ outcome = "returned"
                  /\ Len(messages) = Len(lines)
                  /\ {messages[j].frames[1].tx_id : j \in 1..Len(messages)}
                         = {HeaderByte(lines[i]) - 232 : i \in 1..Len(lines)}

\* C12's case: the four responses 7EC..7EF came in one batch and the call
\* returned four messages, one per tx_id 4..7, each sent to the tester
C12_Witness ==
    /\ Called
    /\ id_bits = 11
    /\ {HeaderByte(lines[i]) : i \in 1..Len(lines)} = 236..239
    /\ outcome = "returned"
    /\ {messages[j].frames[1].tx_id : j \in 1..Len(messages)} = 4..7
    /\ \A j \in 1..Len(messages) : messages[j].frames[1].rx_id = 241

\* the number of consecutive frames of the batch
OrderN == Len(lines) - 1

\* the 4-bit index of the k-th consecutive frame to arrive, as parse_frame reads it
ArrivedIndex(k) == ParsedLines[k + 1].frame.seq_index

\* the batch is a first frame and then fewer than 16 consecutive frames that
\* carry each index 1..n once
IsOrderBatch ==
    /\ OrderN \in 1..15
    /\ lines[1] = RolloverFF(id_bits, OrderN, TRUE, FALSE)
    /\ \A k \in 1..OrderN : ParsedLines[k + 1].frame.type = FRAME_TYPE_CF
    /\ {ArrivedIndex(k) : k \in 1..OrderN} = 1..OrderN

\* the call returned the one message, with the payloads in index order
AssembledInOrder ==
    /\ outcome = "returned"
    /\ Len(messages) = 1
    /\ messages[1].data = <<1, 49, 50, 51>> \o RolloverBytes(OrderN, TRUE)

\* no frame arrives right after one whose index is more than 7 higher
WithinWindow == \A k \in 1..(OrderN - 1) : ArrivedIndex(k + 1) >= ArrivedIndex(k) - 7

\* C13 as stated: a group of one FF and n <= 15 CFs that carry each index 1..n
\* once is accepted and assembled to the same data for every arrival order of
\* the CF lines.
C13_AnyArrivalOrder == (Called /\ IsOrderBatch) => AssembledInOrder

\* C13 amended: such a group is accepted and assembled to the same data for
\* every arrival order in which no CF comes right after one whose index is more
\* than 7 higher (every order when n <= 8); in the other orders the index is
\* read as a rollover and the group yields no message.
C13_ArrivalOrderWithinWindow ==
    (Called /\ IsOrderBatch) =>
        /\ OrderN <= 8 => WithinWindow
        /\ IF WithinWindow THEN AssembledInOrder
           ELSE outcome = "returned" /\ messages = <<>>

\* C13's case: nine or more CFs arrived with the last one first and the group
\* was assembled in index order
C13_Witness ==
    /\ Called
    /\ IsOrderBatch
    /\ OrderN >= 9
    /\ ArrivedIndex(1) = OrderN
    /\ AssembledInOrder
    /\ messages[1].frames[2].seq_index = OrderN

====
